---- MODULE Spec2Model ----
(***************************************************************************)
(* Model of ConsentAgent (src/basic_agent/consent_agent/consent.py).       *)
(*                                                                         *)
(* The Firestore consent collection is the variable store, the audit      *)
(* collection is the sequence audit, datetime.utcnow() is the variable     *)
(* clock.  Calls of verify_consent and register_consent run on a small     *)
(* pool of caller threads; every access to the store, the audit sink or    *)
(* the clock is an atomic step of its own, so calls interleave exactly at  *)
(* those points.                                                           *)
(***************************************************************************)
EXTENDS Integers, Sequences, FiniteSets, TLC

VARIABLES
    required_consents,  \* self.required_consents (list of category names)
    default_expiry,     \* self.default_expiry, in days
    store,              \* consent collection: user id -> document snapshot
    audit,              \* audit collection, in order of writing
    clock,              \* datetime.utcnow(), in days
    pc,                 \* position of each caller thread
    call,               \* locals of the call each caller thread runs
    ncalls,             \* number of calls started so far
    violation,          \* the handle_data_violation call and its position
    posts,              \* requests.post calls made, in order
    scan,               \* the scan_bucket call and its position
    bucket,             \* bucket.list_blobs(), in enumeration order
    privacy_scans,      \* the privacy_scans collection
    scanlog             \* history: what scan_bucket did, in order

agentVars == <<required_consents, default_expiry, store, audit, clock, pc, call,
               ncalls>>
responderVars == <<violation, posts>>
scanVars == <<scan, bucket, privacy_scans, scanlog>>

vars == <<required_consents, default_expiry, store, audit, clock, pc, call,
          ncalls, violation, posts, scan, bucket, privacy_scans, scanlog>>

----------------------------------------------------------------------------
(* Bounds of the model *)

MaxCalls == 3
MaxConcurrentCalls == 2
MaxTime == 2
MaxViolations == 2
MaxBlobs == 2

Main == "p1"
Procs == {"p1", "p2"}
Users == {"u1"}
DataTypes == {"email", "marketing"}

----------------------------------------------------------------------------
(* Python values held in a Firestore document *)

Bool(b) == [kind |-> "bool", b |-> b, t |-> 0, s |-> ""]
DateTime(t) == [kind |-> "datetime", b |-> FALSE, t |-> t, s |-> ""]
Str(s) == [kind |-> "str", b |-> FALSE, t |-> 0, s |-> s]

\* Python truthiness, as used by `not x` and `x and ...`
Truthy(v) ==
    CASE v.kind = "bool" -> v.b
      [] v.kind = "datetime" -> TRUE
      [] v.kind = "str" -> v.s # ""

EmptyDict == [k \in {} |-> Bool(FALSE)]

\* doc_ref.get() of a missing document / of a stored document
NoDoc == [exists |-> FALSE, data |-> EmptyDict]
Doc(d) == [exists |-> TRUE, data |-> d]

----------------------------------------------------------------------------
(* Environment and configuration (ConsentAgent.__init__) *)

Unset == [set |-> FALSE, val |-> <<>>]
EnvVal(s) == [set |-> TRUE, val |-> s]

\* os.getenv(name, default)
GetEnv(e, default) == IF e.set THEN e.val ELSE default

\* A string is a sequence of tokens; "," is the separator token.
RECURSIVE SplitAcc(_, _, _, _)
SplitAcc(s, i, cur, out) ==
    IF i > Len(s) THEN Append(out, cur)
    ELSE IF s[i] = "," THEN SplitAcc(s, i + 1, "", Append(out, cur))
    ELSE SplitAcc(s, i + 1, cur \o s[i], out)

\* Mutant: empty names are dropped from the list
Split_SkipEmpty(s) ==
    LET all == SplitAcc(s, 1, "", <<>>) IN SelectSeq(all, LAMBDA x : x # "")

\* str.split(',')
Split(s) == SplitAcc(s, 1, "", <<>>)

Digits == <<"0", "1", "2", "3", "4", "5", "6", "7", "8", "9">>
DigitVal(c) == (CHOOSE i \in 1..Len(Digits) : Digits[i] = c) - 1

RECURSIVE IntAcc(_, _, _)
IntAcc(s, i, acc) ==
    IF i > Len(s) THEN acc ELSE IntAcc(s, i + 1, acc * 10 + DigitVal(s[i]))

\* int(str) on a string of decimal digits
ParseInt(s) == IntAcc(s, 1, 0)

RequiredConsentsDefault == <<>>
ExpiryDaysDefault == <<"3", "6", "5">>

\* The environments tried: REQUIRED_CONSENTS and DEFAULT_CONSENT_EXPIRY_DAYS
Environments ==
    { [required |-> Unset, expiry |-> Unset],
      [required |-> EnvVal(<<"data_processing">>), expiry |-> EnvVal(<<"1">>)],
      [required |-> EnvVal(<<"data_processing", ",", "marketing">>),
       expiry |-> EnvVal(<<"1">>)] }

RequiredConsents(env) == Split(GetEnv(env, RequiredConsentsDefault))
DefaultExpiry(env) == ParseInt(GetEnv(env, ExpiryDaysDefault))

----------------------------------------------------------------------------
(* Payloads passed to register_consent *)

Payloads ==
    { ("data_processing" :> Bool(TRUE) @@ "email" :> Bool(FALSE)
         @@ "marketing" :> Bool(TRUE)),
      ("data_processing" :> Bool(TRUE) @@ "email_consent" :> Bool(FALSE)),
      ("data_processing" :> Bool(FALSE) @@ "email_consent" :> Bool(TRUE)),
      ("" :> Bool(TRUE) @@ "marketing" :> Bool(FALSE)),
      ("data_processing" :> Bool(TRUE) @@ "expiry_date" :> DateTime(0)
         @@ "user_id" :> Str("u2")),
      ("data_processing" :> Bool(TRUE) @@ "expiry_date" :> Bool(TRUE)) }

\* Payloads and data types of the calls that run concurrently
ConcurrentPayloads ==
    { ("data_processing" :> Bool(TRUE) @@ "email_consent" :> Bool(FALSE)),
      ("data_processing" :> Bool(TRUE) @@ "marketing" :> Bool(TRUE)) }
ConcurrentDataTypes == {"email"}

----------------------------------------------------------------------------
(* Locals of a call *)

NoCall ==
    [ op |-> "none", user_id |-> "", data_type |-> "", consents |-> EmptyDict,
      doc |-> NoDoc, timestamp |-> 0, consent_data |-> EmptyDict,
      action |-> "", success |-> FALSE, ret |-> FALSE, result |-> FALSE,
      raised |-> "", emits |-> 0, storeError |-> FALSE, sinkOk |-> TRUE,
      wrote |-> FALSE, replaced |-> NoDoc, now |-> 0 ]

\* No handle_data_violation call yet, no request sent
NoViolation == [pc |-> "idle", n |-> 0, user_id |-> "", data_type |-> "", raised |-> ""]
ResponderInit ==
    /\ violation = NoViolation
    /\ posts = <<>>

\* No scan_bucket call, an empty bucket
NoScan == [pc |-> "idle", i |-> 0, findings |-> <<>>, failed |-> FALSE, raised |-> ""]
ScanIdle ==
    /\ scan = NoScan
    /\ bucket = <<>>
    /\ privacy_scans = {}
    /\ scanlog = <<>>

AgentInit ==
    /\ \E env \in Environments :
         /\ required_consents = RequiredConsents(env.required)
         /\ default_expiry = DefaultExpiry(env.expiry)
    /\ store = [u \in Users |-> NoDoc]
    /\ audit = <<>>
    /\ clock = 0
    /\ pc = [p \in Procs |-> "idle"]
    /\ call = [p \in Procs |-> NoCall]
    /\ ncalls = 0

Init ==
    /\ AgentInit
    /\ ResponderInit
    /\ ScanIdle

\* datetime.utcnow() advances
Tick ==
    /\ clock < MaxTime
    /\ clock' = clock + 1
    /\ UNCHANGED <<responderVars, scanVars>>
    /\ UNCHANGED <<required_consents, default_expiry, store, audit, pc, call,
                   ncalls>>

----------------------------------------------------------------------------
(* _log_audit *)

AuditEntry(user_id, action, success, now) ==
    [ user_id |-> user_id, timestamp |-> now, action |-> action,
      success |-> success, service |-> "consent_agent" ]

\* Mutant: the entry is written to one fixed document, replacing the last
AuditSet_Overwrite(log, entry, sinkOk) == IF sinkOk THEN <<entry>> ELSE log

\* audit_ref.set(...): the entry is appended unless the sink fails
AuditSet(log, entry, sinkOk) == IF sinkOk THEN Append(log, entry) ELSE log

\* Mutant: a failure of the sink propagates out of _log_audit
LogAuditRaises_Propagates(sinkOk) == ~ sinkOk

\* Whether _log_audit raises to its caller: `except Exception` swallows
\* every failure of the sink.
LogAuditRaises(sinkOk) == FALSE

----------------------------------------------------------------------------
(* verify_consent *)

NoRecordMsg == "No consent document found"
GlobalDeniedMsg == "Global data processing consent missing"
CategoryDeniedMsg(data_type) == "Specific consent denied for " \o data_type
ExpiredMsg == "Consent expired"
ValidMsg(data_type) == "Valid consent for " \o data_type

TypeConsentKey(data_type) == data_type \o "_consent"

Outcome(action, success, ret) ==
    [action |-> action, success |-> success, ret |-> ret, raised |-> ""]
Raise(exc) == [action |-> "", success |-> FALSE, ret |-> FALSE, raised |-> exc]

\* Mutant: only the absence of the key counts, a stored false does not
GlobalMissing_AbsentOnly(data) == "data_processing" \notin DOMAIN data

\* consent_data.get('data_processing', False), negated
GlobalMissing(data) ==
    ~ ("data_processing" \in DOMAIN data /\ Truthy(data["data_processing"]))

\* type_consent_key in consent_data and not consent_data[type_consent_key]
CategoryDenied(data, data_type) ==
    /\ TypeConsentKey(data_type) \in DOMAIN data
    /\ ~ Truthy(data[TypeConsentKey(data_type)])

\* expiry_date < datetime.utcnow()
Before(expiry_date, now) == expiry_date < now

\* Mutant: the expiry rule is applied before the global and category rules
Decide_ExpiryFirst(doc, data_type, now) ==
    IF ~ doc.exists THEN Outcome(NoRecordMsg, FALSE, FALSE)
    ELSE IF /\ "expiry_date" \in DOMAIN doc.data
            /\ doc.data["expiry_date"].kind = "datetime"
            /\ Before(doc.data["expiry_date"].t, now)
         THEN Outcome(ExpiredMsg, FALSE, FALSE)
    ELSE IF GlobalMissing(doc.data) THEN Outcome(GlobalDeniedMsg, FALSE, FALSE)
    ELSE IF CategoryDenied(doc.data, data_type)
         THEN Outcome(CategoryDeniedMsg(data_type), FALSE, FALSE)
    ELSE IF "expiry_date" \in DOMAIN doc.data /\ Truthy(doc.data["expiry_date"])
              /\ doc.data["expiry_date"].kind # "datetime"
         THEN Raise("TypeError")
    ELSE Outcome(ValidMsg(data_type), TRUE, TRUE)

\* The rules of verify_consent on the fetched snapshot, in code order.
\* Comparing a non-datetime expiry_date with a datetime raises TypeError.
Decide(doc, data_type, now) ==
    IF ~ doc.exists THEN Outcome(NoRecordMsg, FALSE, FALSE)
    ELSE IF GlobalMissing(doc.data) THEN Outcome(GlobalDeniedMsg, FALSE, FALSE)
    ELSE IF CategoryDenied(doc.data, data_type)
         THEN Outcome(CategoryDeniedMsg(data_type), FALSE, FALSE)
    ELSE IF "expiry_date" \in DOMAIN doc.data /\ Truthy(doc.data["expiry_date"])
         THEN IF doc.data["expiry_date"].kind # "datetime" THEN Raise("TypeError")
              ELSE IF Before(doc.data["expiry_date"].t, now)
                   THEN Outcome(ExpiredMsg, FALSE, FALSE)
                   ELSE Outcome(ValidMsg(data_type), TRUE, TRUE)
    ELSE Outcome(ValidMsg(data_type), TRUE, TRUE)

VerifyStart(p, u, c) ==
    /\ pc[p] \in {"idle", "done"}
    /\ ncalls < MaxCalls
    /\ pc' = [pc EXCEPT ![p] = "v_get"]
    /\ call' = [call EXCEPT ![p] =
                  [NoCall EXCEPT !.op = "verify", !.user_id = u, !.data_type = c]]
    /\ ncalls' = ncalls + 1
    /\ UNCHANGED <<responderVars, scanVars>>
    /\ UNCHANGED <<required_consents, default_expiry, store, audit, clock>>

\* doc_ref.get(); a GoogleAPICallError goes to the handler at the end of
\* verify_consent, which logs to the process log and returns False.
VerifyGet(p) ==
    /\ pc[p] = "v_get"
    /\ \E ok \in BOOLEAN :
         IF ok
         THEN /\ call' = [call EXCEPT ![p].doc = store[call[p].user_id]]
              /\ pc' = [pc EXCEPT ![p] = "v_check"]
         ELSE /\ call' = [call EXCEPT ![p].storeError = TRUE,
                                      ![p].result = FALSE]
              /\ pc' = [pc EXCEPT ![p] = "done"]
    /\ UNCHANGED <<responderVars, scanVars>>
    /\ UNCHANGED <<required_consents, default_expiry, store, audit, clock,
                   ncalls>>

\* Mutant: doc.exists and the global flag come from the fetched snapshot,
\* the other fields from a second read of the store
Snapshot_RereadFlags(p) ==
    LET first == call[p].doc
        second == store[call[p].user_id]
    IN IF first.exists /\ second.exists
       THEN Doc( [k \in {"data_processing"} \cap DOMAIN first.data |-> first.data[k]]
                 @@ [k \in DOMAIN second.data \ {"data_processing"} |-> second.data[k]] )
       ELSE first

\* doc and consent_data = doc.to_dict(): the one snapshot doc_ref.get() gave
Snapshot(p) == call[p].doc

\* The rule checks; datetime.utcnow() is read here.
VerifyCheck(p) ==
    /\ pc[p] = "v_check"
    /\ LET d == Decide(Snapshot(p), call[p].data_type, clock) IN
         IF d.raised # ""
         THEN /\ call' = [call EXCEPT ![p].raised = d.raised, ![p].now = clock]
              /\ pc' = [pc EXCEPT ![p] = "done"]
         ELSE /\ call' = [call EXCEPT ![p].action = d.action,
                                      ![p].success = d.success,
                                      ![p].ret = d.ret,
                                      ![p].now = clock]
              /\ pc' = [pc EXCEPT ![p] = "v_audit"]
    /\ UNCHANGED <<responderVars, scanVars>>
    /\ UNCHANGED <<required_consents, default_expiry, store, audit, clock,
                   ncalls>>

\* self._log_audit(...) followed by the branch's return
VerifyAudit(p) ==
    /\ pc[p] = "v_audit"
    /\ \E sinkOk \in BOOLEAN :
         /\ audit' = AuditSet(audit,
                AuditEntry(call[p].user_id, call[p].action, call[p].success, clock),
                sinkOk)
         /\ call' = [call EXCEPT
                ![p].emits = @ + 1,
                ![p].sinkOk = sinkOk,
                ![p].result = IF LogAuditRaises(sinkOk) THEN FALSE
                              ELSE call[p].ret]
    /\ pc' = [pc EXCEPT ![p] = "done"]
    /\ UNCHANGED <<responderVars, scanVars>>
    /\ UNCHANGED <<required_consents, default_expiry, store, clock, ncalls>>

----------------------------------------------------------------------------
(* register_consent *)

RegisteredMsg == "New consent registered"
MissingMsg(consent) ==
    "Consent registration failed: Missing required consent: " \o consent
StoreFailedMsg == "Consent registration failed: GoogleAPICallError"
AuditFailedMsg == "Consent registration failed: audit"

\* The dictionary literal of register_consent: the fixed fields first, then
\* **consents, so a payload key equal to a fixed field's name wins.
ConsentData(user_id, timestamp, expiry_date, consents) ==
    consents @@ ( "user_id" :> Str(user_id)
               @@ "timestamp" :> DateTime(timestamp)
               @@ "expiry_date" :> DateTime(expiry_date) )

\* datetime.utcnow() + self.default_expiry
ExpiryDate(now, expiry) == now + expiry

\* Mutant: only the first required consent is validated
FirstMissing_FirstOnly(required, consents) ==
    IF Len(required) > 0 /\ required[1] \notin DOMAIN consents
    THEN << required[1] >> ELSE <<>>

\* The validation loop: the first required consent that is no key of the
\* payload, as a sequence of length 0 (none missing) or 1.
FirstMissing(required, consents) ==
    LET missing == { i \in 1..Len(required) : required[i] \notin DOMAIN consents }
    IN IF missing = {} THEN <<>>
       ELSE << required[CHOOSE i \in missing : \A j \in missing : i <= j] >>

\* Mutant: set(consent_data, merge=True) keeps the fields not resubmitted
DocSet_Merge(old, consent_data) == Doc(consent_data @@ old.data)

\* doc_ref.set(consent_data): without merge, the document is replaced
DocSet(old, consent_data) == Doc(consent_data)

RegisterStart(p, u, consents) ==
    /\ pc[p] \in {"idle", "done"}
    /\ ncalls < MaxCalls
    /\ pc' = [pc EXCEPT ![p] = "r_timestamp"]
    /\ call' = [call EXCEPT ![p] =
                  [NoCall EXCEPT !.op = "register", !.user_id = u,
                                 !.consents = consents]]
    /\ ncalls' = ncalls + 1
    /\ UNCHANGED <<responderVars, scanVars>>
    /\ UNCHANGED <<required_consents, default_expiry, store, audit, clock>>

\* 'timestamp': datetime.utcnow()
RegisterTimestamp(p) ==
    /\ pc[p] = "r_timestamp"
    /\ call' = [call EXCEPT ![p].timestamp = clock]
    /\ pc' = [pc EXCEPT ![p] = "r_build"]
    /\ UNCHANGED <<responderVars, scanVars>>
    /\ UNCHANGED <<required_consents, default_expiry, store, audit, clock,
                   ncalls>>

\* 'expiry_date': datetime.utcnow() + self.default_expiry, the rest of the
\* dictionary, and the validation of the required consents.
RegisterBuild(p) ==
    /\ pc[p] = "r_build"
    /\ LET c == call[p]
           data == ConsentData(c.user_id, c.timestamp,
                               ExpiryDate(clock, default_expiry), c.consents)
           missing == FirstMissing(required_consents, c.consents)
       IN IF missing # <<>>
             THEN /\ call' = [call EXCEPT ![p].consent_data = data,
                                          ![p].action = MissingMsg(missing[1]),
                                          ![p].raised = "ValueError"]
                  /\ pc' = [pc EXCEPT ![p] = "r_failed"]
             ELSE /\ call' = [call EXCEPT ![p].consent_data = data]
                  /\ pc' = [pc EXCEPT ![p] = "r_set"]
    /\ UNCHANGED <<responderVars, scanVars>>
    /\ UNCHANGED <<required_consents, default_expiry, store, audit, clock,
                   ncalls>>

\* doc_ref.set(consent_data); a failure of the write goes to the handler
RegisterSet(p) ==
    /\ pc[p] = "r_set"
    /\ \E ok \in BOOLEAN :
         IF ok
         THEN /\ store' = [store EXCEPT ![call[p].user_id] =
                              DocSet(@, call[p].consent_data)]
              /\ call' = [call EXCEPT ![p].wrote = TRUE,
                                      ![p].replaced = store[call[p].user_id],
                                      ![p].action = RegisteredMsg,
                                      ![p].success = TRUE,
                                      ![p].ret = TRUE]
              /\ pc' = [pc EXCEPT ![p] = "r_audit"]
         ELSE /\ call' = [call EXCEPT ![p].storeError = TRUE,
                                      ![p].action = StoreFailedMsg,
                                      ![p].raised = "GoogleAPICallError"]
              /\ pc' = [pc EXCEPT ![p] = "r_failed"]
              /\ UNCHANGED store
    /\ UNCHANGED <<responderVars, scanVars>>
    /\ UNCHANGED <<required_consents, default_expiry, audit, clock, ncalls>>

\* self._log_audit(user_id, "New consent registered", True); return True
RegisterAudit(p) ==
    /\ pc[p] = "r_audit"
    /\ \E sinkOk \in BOOLEAN :
         /\ audit' = AuditSet(audit,
                AuditEntry(call[p].user_id, call[p].action, TRUE, clock), sinkOk)
         /\ IF LogAuditRaises(sinkOk)
            THEN /\ call' = [call EXCEPT ![p].emits = @ + 1,
                                         ![p].sinkOk = sinkOk,
                                         ![p].action = AuditFailedMsg,
                                         ![p].raised = "Exception"]
                 /\ pc' = [pc EXCEPT ![p] = "r_failed"]
            ELSE /\ call' = [call EXCEPT ![p].emits = @ + 1,
                                         ![p].sinkOk = sinkOk,
                                         ![p].result = call[p].ret]
                 /\ pc' = [pc EXCEPT ![p] = "done"]
    /\ UNCHANGED <<responderVars, scanVars>>
    /\ UNCHANGED <<required_consents, default_expiry, store, clock, ncalls>>

\* except Exception: logging.error, self._log_audit(..., False), return False
RegisterFailed(p) ==
    /\ pc[p] = "r_failed"
    /\ \E sinkOk \in BOOLEAN :
         /\ audit' = AuditSet(audit,
                AuditEntry(call[p].user_id, call[p].action, FALSE, clock), sinkOk)
         /\ call' = [call EXCEPT ![p].emits = @ + 1,
                                 ![p].sinkOk = sinkOk,
                                 ![p].success = FALSE,
                                 ![p].result = FALSE,
                                 ![p].raised = IF LogAuditRaises(sinkOk)
                                               THEN "Exception" ELSE ""]
    /\ pc' = [pc EXCEPT ![p] = "done"]
    /\ UNCHANGED <<responderVars, scanVars>>
    /\ UNCHANGED <<required_consents, default_expiry, store, clock, ncalls>>

\* One caller thread: calls run one after another.
Next ==
    \/ Tick
    \/ \E u \in Users, c \in DataTypes : VerifyStart(Main, u, c)
    \/ VerifyGet(Main)
    \/ VerifyCheck(Main)
    \/ VerifyAudit(Main)
    \/ \E u \in Users, consents \in Payloads : RegisterStart(Main, u, consents)
    \/ RegisterTimestamp(Main)
    \/ RegisterBuild(Main)
    \/ RegisterSet(Main)
    \/ RegisterAudit(Main)
    \/ RegisterFailed(Main)

Spec == Init /\ [][Next]_vars

\* Two caller threads on one agent: calls interleave at every access to the
\* store, the audit sink and the clock.
InitConcurrent ==
    /\ Init
    /\ required_consents = RequiredConsents(EnvVal(<<"data_processing">>))
    /\ default_expiry = DefaultExpiry(EnvVal(<<"1">>))

NextConcurrent ==
    \/ Tick
    \/ \E p \in Procs, u \in Users, c \in ConcurrentDataTypes :
          ncalls < MaxConcurrentCalls /\ VerifyStart(p, u, c)
    \/ \E p \in Procs : VerifyGet(p)
    \/ \E p \in Procs : VerifyCheck(p)
    \/ \E p \in Procs : VerifyAudit(p)
    \/ \E p \in Procs, u \in Users, consents \in ConcurrentPayloads :
          ncalls < MaxConcurrentCalls /\ RegisterStart(p, u, consents)
    \/ \E p \in Procs : RegisterTimestamp(p)
    \/ \E p \in Procs : RegisterBuild(p)
    \/ \E p \in Procs : RegisterSet(p)
    \/ \E p \in Procs : RegisterAudit(p)
    \/ \E p \in Procs : RegisterFailed(p)

SpecConcurrent == InitConcurrent /\ [][NextConcurrent]_vars

\* The same two threads, started on a store that already holds a record
\* for the user (registered at time 0 under the same configuration).
PriorPayload == "data_processing" :> Bool(TRUE) @@ "email_consent" :> Bool(FALSE)

InitSnapshot ==
    /\ required_consents = RequiredConsents(EnvVal(<<"data_processing">>))
    /\ default_expiry = DefaultExpiry(EnvVal(<<"1">>))
    /\ store = [u \in Users |->
                  Doc(ConsentData(u, 0, ExpiryDate(0, default_expiry), PriorPayload))]
    /\ audit = <<>>
    /\ clock = 0
    /\ pc = [p \in Procs |-> "idle"]
    /\ call = [p \in Procs |-> NoCall]
    /\ ncalls = 0
    /\ ResponderInit
    /\ ScanIdle

SpecSnapshot == InitSnapshot /\ [][NextConcurrent]_vars
----------------------------------------------------------------------------
(* handle_data_violation *)

ViolationDataTypes == {"email", "phone_number", "credit_card"}

\* data_type in ['email', 'phone_number']
Redactable == {"email", "phone_number"}

BlockUrl == "/block-processing"
RedactUrl == "/redact-data"

\* What a requests.post call can do: return a response (of any status; the
\* code does not look at it) or raise (connection error, invalid URL).
PostOutcomes == {"response", "error_response", "raised"}

\* One requests.post call, as recorded in posts
Post(n, url, user_id, data_type, outcome) ==
    [ n |-> n, url |-> url, user_id |-> user_id, data_type |-> data_type,
      outcome |-> outcome ]

ViolationStart(u, c) ==
    /\ violation.pc \in {"idle", "done"}
    /\ violation.n < MaxViolations
    /\ violation' = [ pc |-> "block", n |-> violation.n + 1, user_id |-> u,
                      data_type |-> c, raised |-> "" ]
    /\ UNCHANGED posts
    /\ UNCHANGED <<agentVars, scanVars>>

\* requests.post(.../block-processing, json={'user_id': user_id}); an
\* exception leaves handle_data_violation, which has no handler.
ViolationBlock ==
    /\ violation.pc = "block"
    /\ \E outcome \in PostOutcomes :
         /\ posts' = Append(posts,
                Post(violation.n, BlockUrl, violation.user_id, "", outcome))
         /\ violation' =
                IF outcome = "raised"
                THEN [violation EXCEPT !.pc = "done", !.raised = "RequestException"]
                ELSE IF violation.data_type \in Redactable
                THEN [violation EXCEPT !.pc = "redact"]
                ELSE [violation EXCEPT !.pc = "done"]
    /\ UNCHANGED <<agentVars, scanVars>>

\* requests.post(.../redact-data, json={'user_id': ..., 'data_type': ...})
ViolationRedact ==
    /\ violation.pc = "redact"
    /\ \E outcome \in PostOutcomes :
         /\ posts' = Append(posts,
                Post(violation.n, RedactUrl, violation.user_id,
                     violation.data_type, outcome))
         /\ violation' =
                IF outcome = "raised"
                THEN [violation EXCEPT !.pc = "done", !.raised = "RequestException"]
                ELSE [violation EXCEPT !.pc = "done"]
    /\ UNCHANGED <<agentVars, scanVars>>

NextViolation ==
    \/ \E u \in Users, c \in ViolationDataTypes : ViolationStart(u, c)
    \/ ViolationBlock
    \/ ViolationRedact

SpecViolation == Init /\ [][NextViolation]_vars

----------------------------------------------------------------------------
(* DataDetectiveAgent.scan_bucket
   (src/basic_agent/deta_detection_agent/agents.py) *)

\* A blob: its name as a sequence of tokens, and the findings the DLP
\* inspection of its content returns (info type names).
Blob(name, findings) == [name |-> name, findings |-> findings]

Blobs ==
    { Blob(<<"a", ".txt">>, <<"EMAIL_ADDRESS">>),
      Blob(<<"b", ".csv">>, <<>>),
      Blob(<<"c", ".png">>, <<"PERSON_NAME">>),
      Blob(<<"d", ".json">>, <<"PERSON_NAME", "CREDIT_CARD_NUMBER">>) }

\* The buckets tried: up to MaxBlobs distinct blobs in any order
Buckets ==
    { b \in UNION { [1..n -> Blobs] : n \in 0..MaxBlobs } :
        \A i, j \in DOMAIN b : i # j => b[i] # b[j] }

\* blob.name.endswith(suffixes)
EndsWith(name, suffixes) == Len(name) > 0 /\ name[Len(name)] \in suffixes
Eligible(blob) == EndsWith(blob.name, {".txt", ".csv", ".json"})

\* _check_consent(findings): the body is `pass`; the set of categories it
\* hands to a consent check.
CheckConsent(findings) == {}

\* One thing scan_bucket did, for the blob at position i
Event(ev, i, fed) == [ev |-> ev, i |-> i, fed |-> fed]

\* Mutant: the try/except is inside the loop, the scan goes on after a failure
OnException_Continue(sc) == [sc EXCEPT !.pc = "loop", !.i = @ + 1, !.failed = TRUE]

\* except Exception: logging.error(...) around the whole scan: the call
\* ends, nothing is raised to the caller.
OnException(sc) == [sc EXCEPT !.pc = "done", !.failed = TRUE]

Failure(what) ==
    /\ scan' = OnException(scan)
    /\ scanlog' = Append(scanlog, Event(what, scan.i, {}))
    /\ UNCHANGED <<bucket, privacy_scans>>

\* get_bucket and list_blobs
ScanStart ==
    /\ scan.pc = "idle"
    /\ \E ok \in BOOLEAN :
         IF ok
         THEN /\ scan' = [scan EXCEPT !.pc = "loop", !.i = 1]
              /\ UNCHANGED <<bucket, privacy_scans, scanlog>>
         ELSE Failure("fail_list")
    /\ UNCHANGED <<agentVars, responderVars>>

\* for blob in blobs: if blob.name.endswith(...)
ScanLoop ==
    /\ scan.pc = "loop"
    /\ scan' = IF scan.i > Len(bucket) THEN [scan EXCEPT !.pc = "done"]
               ELSE IF Eligible(bucket[scan.i]) THEN [scan EXCEPT !.pc = "download"]
               ELSE [scan EXCEPT !.i = @ + 1]
    /\ UNCHANGED <<bucket, privacy_scans, scanlog>>
    /\ UNCHANGED <<agentVars, responderVars>>

\* content = blob.download_as_text()
ScanDownload ==
    /\ scan.pc = "download"
    /\ \E ok \in BOOLEAN :
         IF ok
         THEN /\ scan' = [scan EXCEPT !.pc = "inspect"]
              /\ scanlog' = Append(scanlog, Event("download", scan.i, {}))
              /\ UNCHANGED <<bucket, privacy_scans>>
         ELSE Failure("fail_download")
    /\ UNCHANGED <<agentVars, responderVars>>

\* findings = self._inspect_content(content); if findings: ...
ScanInspect ==
    /\ scan.pc = "inspect"
    /\ \E ok \in BOOLEAN :
         IF ok
         THEN /\ scan' = IF bucket[scan.i].findings # <<>>
                         THEN [scan EXCEPT !.pc = "log",
                                           !.findings = bucket[scan.i].findings]
                         ELSE [scan EXCEPT !.pc = "loop", !.i = @ + 1,
                                           !.findings = <<>>]
              /\ scanlog' = Append(scanlog, Event("inspect", scan.i, {}))
              /\ UNCHANGED <<bucket, privacy_scans>>
         ELSE Failure("fail_inspect")
    /\ UNCHANGED <<agentVars, responderVars>>

\* self._log_findings(blob.name, findings): document(filename).set(...)
ScanLogFindings ==
    /\ scan.pc = "log"
    /\ \E ok \in BOOLEAN :
         IF ok
         THEN /\ privacy_scans' =
                    { d \in privacy_scans : d.name # bucket[scan.i].name }
                    \cup { Blob(bucket[scan.i].name, scan.findings) }
              /\ scan' = [scan EXCEPT !.pc = "check"]
              /\ scanlog' = Append(scanlog, Event("log", scan.i, {}))
              /\ UNCHANGED bucket
         ELSE Failure("fail_log")
    /\ UNCHANGED <<agentVars, responderVars>>

\* self._check_consent(findings)
ScanCheckConsent ==
    /\ scan.pc = "check"
    /\ scan' = [scan EXCEPT !.pc = "loop", !.i = @ + 1]
    /\ scanlog' = Append(scanlog, Event("check", scan.i, CheckConsent(scan.findings)))
    /\ UNCHANGED <<bucket, privacy_scans>>
    /\ UNCHANGED <<agentVars, responderVars>>

InitScan ==
    /\ AgentInit
    /\ ResponderInit
    /\ scan = NoScan
    /\ bucket \in Buckets
    /\ privacy_scans = {}
    /\ scanlog = <<>>

NextScan ==
    \/ ScanStart
    \/ ScanLoop
    \/ ScanDownload
    \/ ScanInspect
    \/ ScanLogFindings
    \/ ScanCheckConsent

SpecScan == InitScan /\ [][NextScan]_vars

----------------------------------------------------------------------------
(* Properties *)

VerifyDone(p) == call[p].op = "verify" /\ pc[p] = "done"
RegisterDone(p) == call[p].op = "register" /\ pc[p] = "done"
UserDoc(p) == store[call[p].user_id]

\* What the caller of a finished call observes: the value returned and the
\* exception raised, if any.
CallerSees(p) == <<call[p].result, call[p].raised>>
Denied == <<FALSE, "">>
Allowed == <<TRUE, "">>

\* The global flag of a record is false or absent.
GlobalOff(data) ==
    \/ "data_processing" \notin DOMAIN data
    \/ data["data_processing"] = Bool(FALSE)
GlobalOn(data) ==
    /\ "data_processing" \in DOMAIN data
    /\ data["data_processing"] = Bool(TRUE)

\* The record holds a datetime expiry that is later than `now`.
Unexpired(data, now) ==
    /\ "expiry_date" \in DOMAIN data
    /\ data["expiry_date"].kind = "datetime"
    /\ now < data["expiry_date"].t

\* C1: for a stored record whose data_processing flag is false or absent, a
\* finished verify_consent has denied, whatever the category, its own flag
\* and the time; when the record was read the audited reason is the global
\* denial.
C1_MasterSwitch ==
    (VerifyDone(Main) /\ UserDoc(Main).exists /\ GlobalOff(UserDoc(Main).data))
    => /\ CallerSees(Main) = Denied
       /\ ~ call[Main].storeError => call[Main].action = GlobalDeniedMsg

\* C1 witness: a denial for a record with data_processing false whose flag
\* for the asked category is explicitly true and which has not expired.
C1_Witness ==
    /\ VerifyDone(Main)
    /\ ~ call[Main].storeError
    /\ UserDoc(Main).exists
    /\ "data_processing" \in DOMAIN UserDoc(Main).data
    /\ UserDoc(Main).data["data_processing"] = Bool(FALSE)
    /\ TypeConsentKey(call[Main].data_type) \in DOMAIN UserDoc(Main).data
    /\ UserDoc(Main).data[TypeConsentKey(call[Main].data_type)] = Bool(TRUE)
    /\ Unexpired(UserDoc(Main).data, clock)
    /\ CallerSees(Main) = Denied

\* C2: after a successful registration whose payload maps category c to
\* false with global processing true, verify_consent(user, c) before expiry
\* denies with the category-denied reason.
C2_RegisterThenCategoryDenied ==
    ( /\ VerifyDone(Main)
      /\ ~ call[Main].storeError
      /\ call[Main].doc.exists
      /\ GlobalOn(call[Main].doc.data)
      /\ call[Main].data_type \in DOMAIN call[Main].doc.data
      /\ call[Main].doc.data[call[Main].data_type] = Bool(FALSE)
      /\ Unexpired(call[Main].doc.data, clock) )
    => /\ CallerSees(Main) = Denied
       /\ call[Main].action = CategoryDeniedMsg(call[Main].data_type)

\* C3: a record read at a time now >= expires_at, with the global flag true
\* and the category not denied, is denied as expired; now = expires_at
\* included.
C3_ExpiredAtOrAfterExpiry ==
    ( /\ VerifyDone(Main)
      /\ ~ call[Main].storeError
      /\ call[Main].doc.exists
      /\ GlobalOn(call[Main].doc.data)
      /\ ~ CategoryDenied(call[Main].doc.data, call[Main].data_type)
      /\ "expiry_date" \in DOMAIN call[Main].doc.data
      /\ call[Main].doc.data["expiry_date"].kind = "datetime"
      /\ call[Main].now >= call[Main].doc.data["expiry_date"].t )
    => /\ CallerSees(Main) = Denied
       /\ call[Main].action = ExpiredMsg

\* C4: every finished verify_consent call has emitted exactly one audit
\* entry, whatever its outcome.
C4_OneAuditPerVerify == VerifyDone(Main) => call[Main].emits = 1

\* C5: a verify_consent whose store lookup failed reports an outcome other
\* than a denial and has audited the failed check.
C5_StoreFailureDistinct ==
    (VerifyDone(Main) /\ call[Main].storeError)
    => /\ CallerSees(Main) # Denied
       /\ call[Main].emits = 1

\* Some category of the configured required set is no key of the payload.
MissingRequired(consents) ==
    \E i \in 1..Len(required_consents) : required_consents[i] \notin DOMAIN consents

FixedFields == {"user_id", "timestamp", "expiry_date"}

\* C6: while a register_consent whose payload lacks a required category
\* runs, no step changes the consent store, and the call ends in failure.
C6_AllOrNothing ==
    [][ ( /\ call[Main].op = "register"
          /\ pc[Main] # "done"
          /\ MissingRequired(call[Main].consents) )
        => /\ store' = store
           /\ pc'[Main] = "done"
                => (call'[Main].result = FALSE /\ call'[Main].raised = "") ]_vars

\* C6 witness: a failed registration with a missing required category,
\* after which the user still has no record.
C6_Witness ==
    /\ RegisterDone(Main)
    /\ MissingRequired(call[Main].consents)
    /\ CallerSees(Main) = Denied
    /\ ~ UserDoc(Main).exists

\* C7: once a register_consent has written, the stored record holds exactly
\* the keys of its payload beside the fixed fields, each with the payload's
\* value; nothing of the replaced record remains.
C7_ReplaceSemantics ==
    (call[Main].op = "register" /\ call[Main].wrote)
    => /\ UserDoc(Main).exists
       /\ DOMAIN UserDoc(Main).data = DOMAIN call[Main].consents \cup FixedFields
       /\ \A k \in DOMAIN call[Main].consents :
             UserDoc(Main).data[k] = call[Main].consents[k]

\* C7 witness: a successful registration replaced a record that held a flag
\* the new payload does not resubmit, and the flag is gone.
C7_Witness ==
    /\ RegisterDone(Main)
    /\ CallerSees(Main) = Allowed
    /\ call[Main].replaced.exists
    /\ \E k \in DOMAIN call[Main].replaced.data : k \notin DOMAIN UserDoc(Main).data

\* C8: under every interleaving of concurrent registrations, a stored record
\* is the complete record of one call: the fixed fields and the keys and
\* values of one payload, never keys of two payloads.
C8_NoMergedRecord ==
    \A u \in Users :
        store[u].exists =>
            \E c \in ConcurrentPayloads :
                /\ DOMAIN store[u].data = DOMAIN c \cup FixedFields
                /\ \A k \in DOMAIN c : store[u].data[k] = c[k]
                /\ store[u].data["user_id"] = Str(u)
                /\ store[u].data["expiry_date"].t
                      >= store[u].data["timestamp"].t + default_expiry

\* C8 witness: two registrations of different payloads for one user are in
\* flight together and both have written.
C8_Witness ==
    /\ pc["p1"] = "r_audit"
    /\ pc["p2"] = "r_audit"
    /\ call["p1"].user_id = call["p2"].user_id
    /\ call["p1"].consents # call["p2"].consents
    /\ call["p1"].wrote
    /\ call["p2"].wrote

\* C9: the outcome of a finished call is the one decided before the audit
\* write, and a written record stays written, whether the audit sink
\* succeeded or failed; no exception reaches the caller.
C9_AuditIsolation ==
    /\ (VerifyDone(Main) /\ call[Main].emits >= 1)
       => CallerSees(Main) =
             << Decide(call[Main].doc, call[Main].data_type, call[Main].now).ret, "" >>
    /\ RegisterDone(Main)
       => /\ CallerSees(Main) = << call[Main].wrote, "" >>
          /\ call[Main].wrote => UserDoc(Main) = Doc(call[Main].consent_data)

\* C9 witness: a verify_consent allowed although its audit write failed.
C9_Witness ==
    /\ VerifyDone(Main)
    /\ call[Main].emits = 1
    /\ ~ call[Main].sinkOk
    /\ CallerSees(Main) = Allowed

\* C10: a written record expires at a time of its registration call plus the
\* default validity, and no stored record expires before its creation.
C10_ValidityWindow ==
    /\ (call[Main].op = "register" /\ call[Main].wrote)
       => \E t \in call[Main].timestamp..clock :
             UserDoc(Main).data["expiry_date"] = DateTime(t + default_expiry)
    /\ \A u \in Users :
          store[u].exists =>
             /\ store[u].data["expiry_date"].kind = "datetime"
             /\ store[u].data["timestamp"].kind = "datetime"
             /\ store[u].data["expiry_date"].t >= store[u].data["timestamp"].t

\* C11: the record stored under key u has user_id field u.
C11_KeyIntegrity ==
    \A u \in Users : store[u].exists => store[u].data["user_id"] = Str(u)

\* The last entry of the audit log, when the call's audit write succeeded.
LastAudit == audit[Len(audit)]

\* C12: a finished register_consent has emitted exactly one audit entry; the
\* entry is tagged success exactly when the record was written and the call
\* returned True, and tagged failure when validation or the write failed,
\* in which case the call returned False.
C12_RegisterAudited ==
    RegisterDone(Main)
    => /\ call[Main].emits = 1
       /\ call[Main].success = call[Main].wrote
       /\ CallerSees(Main) = << call[Main].wrote, "" >>
       /\ call[Main].wrote => UserDoc(Main) = Doc(call[Main].consent_data)
       /\ (MissingRequired(call[Main].consents) \/ call[Main].storeError)
             => ~ call[Main].success
       /\ call[Main].sinkOk
             => /\ audit # <<>>
                /\ LastAudit.user_id = call[Main].user_id
                /\ LastAudit.success = call[Main].wrote

\* C12 witness: a registration whose store write failed, audited as a
\* failure and reported as a failure.
C12_Witness ==
    /\ RegisterDone(Main)
    /\ call[Main].storeError
    /\ call[Main].sinkOk
    /\ audit # <<>>
    /\ ~ LastAudit.success
    /\ LastAudit.action = StoreFailedMsg
    /\ CallerSees(Main) = Denied

\* C14: every step leaves the audit log written so far as a prefix of the
\* log after the step.
C14_AppendOnly ==
    [][ /\ Len(audit') >= Len(audit)
        /\ SubSeq(audit', 1, Len(audit)) = audit ]_vars

\* C14 witness: a log of two entries written by two calls.
C14_Witness ==
    /\ Len(audit) >= 2
    /\ audit[1] # audit[2]

\* The rules of verify_consent as conditions on a record, for C16.
RuleNoRecord(doc) == ~ doc.exists
RuleGlobalDenied(doc) == GlobalOff(doc.data)
RuleCategoryDenied(doc, data_type) ==
    /\ (data_type \o "_consent") \in DOMAIN doc.data
    /\ doc.data[data_type \o "_consent"] = Bool(FALSE)
RuleExpired(doc, now) ==
    /\ "expiry_date" \in DOMAIN doc.data
    /\ doc.data["expiry_date"].kind = "datetime"
    /\ doc.data["expiry_date"].t < now

\* The reason of the earliest failing rule, in the order no-record, global,
\* category, expired.
EarliestReason(doc, data_type, now) ==
    IF RuleNoRecord(doc) THEN NoRecordMsg
    ELSE IF RuleGlobalDenied(doc) THEN GlobalDeniedMsg
    ELSE IF RuleCategoryDenied(doc, data_type) THEN CategoryDeniedMsg(data_type)
    ELSE IF RuleExpired(doc, now) THEN ExpiredMsg
    ELSE ValidMsg(data_type)

\* C16: the single audited reason of a finished verify_consent is that of
\* the earliest failing rule, and the call allows only when no rule fails.
C16_RuleOrder ==
    /\ (VerifyDone(Main) /\ call[Main].emits = 1)
       => /\ call[Main].action =
                EarliestReason(call[Main].doc, call[Main].data_type, call[Main].now)
          /\ call[Main].sinkOk => (audit # <<>> /\ LastAudit.action = call[Main].action)
    /\ (VerifyDone(Main) /\ CallerSees(Main) = Allowed)
       => /\ ~ RuleNoRecord(call[Main].doc)
          /\ ~ RuleGlobalDenied(call[Main].doc)
          /\ ~ RuleCategoryDenied(call[Main].doc, call[Main].data_type)
          /\ ~ RuleExpired(call[Main].doc, call[Main].now)

\* C16 witness: a record that is globally denied and expired, audited as the
\* global denial.
C16_Witness ==
    /\ VerifyDone(Main)
    /\ call[Main].emits = 1
    /\ call[Main].doc.exists
    /\ RuleGlobalDenied(call[Main].doc)
    /\ RuleExpired(call[Main].doc, call[Main].now)
    /\ call[Main].action = GlobalDeniedMsg
    /\ call[Main].sinkOk
    /\ LastAudit.action = GlobalDeniedMsg

\* C18: with REQUIRED_CONSENTS unset or empty the required list is the one
\* empty name; under it a registration whose payload lacks the key ""
\* writes nothing and fails, so every stored record holds the key "".
C18_EmptyRequiredName ==
    /\ RequiredConsents(Unset) = <<"">>
    /\ RequiredConsents(EnvVal(<<>>)) = <<"">>
    /\ required_consents = RequiredConsents(Unset)
       => /\ \A u \in Users : store[u].exists => "" \in DOMAIN store[u].data
          /\ (call[Main].op = "register" /\ "" \notin DOMAIN call[Main].consents)
                => /\ ~ call[Main].wrote
                   /\ pc[Main] = "done" => CallerSees(Main) = Denied

\* C18 witness: under the unset configuration a payload that holds
\* data_processing but not "" was refused for the missing name "".
C18_Witness ==
    /\ required_consents = <<"">>
    /\ RegisterDone(Main)
    /\ "data_processing" \in DOMAIN call[Main].consents
    /\ "" \notin DOMAIN call[Main].consents
    /\ call[Main].action = MissingMsg("")
    /\ CallerSees(Main) = Denied
    /\ ~ UserDoc(Main).exists

\* A snapshot is no record, or the complete record of one registration.
CompleteVersion(doc) ==
    \/ ~ doc.exists
    \/ \E c \in ConcurrentPayloads :
          /\ DOMAIN doc.data = DOMAIN c \cup FixedFields
          /\ \A k \in DOMAIN c : doc.data[k] = c[k]

\* C17: under every interleaving with concurrent registrations, the outcome
\* of a finished verify_consent is the decision on the one snapshot it
\* fetched, and that snapshot is one complete record version.
C17_SingleSnapshot ==
    \A p \in Procs :
        (VerifyDone(p) /\ call[p].emits = 1)
        => /\ CompleteVersion(call[p].doc)
           /\ call[p].action =
                 EarliestReason(call[p].doc, call[p].data_type, call[p].now)
           /\ CallerSees(p) = << call[p].action = ValidMsg(call[p].data_type), "" >>

\* C17 witness: a verify_consent that fetched the prior record finished with
\* the category denial of that record after a concurrent registration had
\* replaced it by a record without the flag.
C17_Witness ==
    \E p \in Procs :
        /\ VerifyDone(p)
        /\ call[p].emits = 1
        /\ call[p].doc.exists
        /\ UserDoc(p).exists
        /\ UserDoc(p) # call[p].doc
        /\ RuleCategoryDenied(call[p].doc, call[p].data_type)
        /\ ~ RuleCategoryDenied(UserDoc(p), call[p].data_type)
        /\ call[p].action = CategoryDeniedMsg(call[p].data_type)

\* The requests of the current handle_data_violation call to a URL
PostsTo(url) ==
    { k \in 1..Len(posts) : posts[k].n = violation.n /\ posts[k].url = url }

\* C13: a finished handle_data_violation has issued a halt request for the
\* user, and a redaction request for (user, category) exactly when the
\* category is redactable, whatever became of the halt request.
C13_ViolationResponse ==
    violation.pc = "done"
    => /\ \E k \in PostsTo(BlockUrl) : posts[k].user_id = violation.user_id
       /\ violation.data_type \in Redactable
             <=> \E k \in PostsTo(RedactUrl) :
                    /\ posts[k].user_id = violation.user_id
                    /\ posts[k].data_type = violation.data_type

\* C15: whenever the scan has handed a blob's findings to the consent
\* check, categories for them were fed into the policy evaluator.
C15_FindingsReachPolicy ==
    \A k \in 1..Len(scanlog) :
        (scanlog[k].ev = "check" /\ bucket[scanlog[k].i].findings # <<>>)
        => scanlog[k].fed # {}

Failures == {"fail_list", "fail_download", "fail_inspect", "fail_log"}

\* Position of the first event of kind ev for blob i; 0 when there is none
FirstEvent(ev, i) ==
    LET ks == { k \in 1..Len(scanlog) : scanlog[k].ev = ev /\ scanlog[k].i = i }
    IN IF ks = {} THEN 0 ELSE CHOOSE k \in ks : \A j \in ks : k <= j

\* C19: scan_bucket raises nothing; what it does follows the enumeration
\* order; a blob is inspected or logged only if eligible, its findings are
\* logged only if non-empty and before the consent check; a failure is the
\* last thing the scan does; and a scan that ended without failure has
\* logged and checked every eligible blob with findings.
C19_ScanOrder ==
    /\ scan.raised = ""
    /\ \A j, k \in 1..Len(scanlog) : j < k => scanlog[j].i <= scanlog[k].i
    /\ \A k \in 1..Len(scanlog) :
          /\ scanlog[k].ev \in {"download", "inspect", "log", "check"}
                => Eligible(bucket[scanlog[k].i])
          /\ scanlog[k].ev = "log" => bucket[scanlog[k].i].findings # <<>>
          /\ scanlog[k].ev = "check"
                => (FirstEvent("log", scanlog[k].i) # 0
                    /\ FirstEvent("log", scanlog[k].i) < k)
          /\ scanlog[k].ev \in Failures => (k = Len(scanlog) /\ scan.pc = "done")
    /\ (scan.pc = "done" /\ ~ scan.failed)
          => \A i \in 1..Len(bucket) :
                (Eligible(bucket[i]) /\ bucket[i].findings # <<>>)
                => (FirstEvent("log", i) # 0 /\ FirstEvent("check", i) # 0
                    /\ Blob(bucket[i].name, bucket[i].findings) \in privacy_scans)

\* C19 witness: the scan failed on an eligible blob and ended, leaving a
\* later eligible blob with findings neither inspected nor logged.
C19_Witness ==
    /\ scan.pc = "done"
    /\ scan.failed
    /\ scanlog # <<>>
    /\ scanlog[Len(scanlog)].ev \in {"fail_download", "fail_inspect", "fail_log"}
    /\ \E i \in 1..Len(bucket) :
          /\ i > scanlog[Len(scanlog)].i
          /\ Eligible(bucket[i])
          /\ bucket[i].findings # <<>>
          /\ FirstEvent("inspect", i) = 0
          /\ FirstEvent("log", i) = 0
====
